---- MODULE Spec2Model ----
(***************************************************************************)
(* A model of subdomain_enum.py: the ReconPipeline orchestrator.  Text is   *)
(* modelled at the character level: a string is a sequence of one-character *)
(* strings, a file is its whole content (newlines included), and the        *)
(* string methods the program uses (strip, split(' ')[0], startswith, in,   *)
(* file iteration, readlines, sorted) are operators on such sequences.      *)
(***************************************************************************)
EXTENDS Integers, Sequences, FiniteSets, TLC

(***************************************************************************)
(* Bounds of the model.                                                     *)
(***************************************************************************)
\* Largest number of lines in the stdout of Subfinder, HTTPx and Katana.
MaxLines == 2

(***************************************************************************)
(* Characters and strings.                                                  *)
(***************************************************************************)
NL == "\n"
SP == " "
TAB == "\t"

\* Code points of the characters used, for Python's string ordering.
Ord(c) ==
  CASE c = "\t" -> 9 [] c = "\n" -> 10 [] c = " " -> 32 [] c = "." -> 46
    [] c = "[" -> 91 [] c = "]" -> 93 [] c = "a" -> 97 [] c = "b" -> 98
    [] c = "c" -> 99 [] c = "h" -> 104 [] c = "p" -> 112 [] c = "t" -> 116
    [] c = "x" -> 120

\* str.isspace() for one character, as str.strip() uses it.
IsSpace(c) == c \in {" ", "\t", "\n", "\r", "\f"}

Range(s) == {s[i] : i \in 1..Len(s)}
Indices(s) == [i \in 1..Len(s) |-> i]
MinOf(a, b) == IF a <= b THEN a ELSE b

\* str.strip(): drop leading and trailing whitespace.
Strip(s) ==
  LET keep == SelectSeq(Indices(s), LAMBDA i : ~IsSpace(s[i]))
  IN IF keep = <<>> THEN <<>> ELSE SubSeq(s, keep[1], keep[Len(keep)])

\* s.split(' ')[0]: the part before the first space character (the whole
\* string when it has no space).  Only " " separates: a tab does not.
FirstField(s) ==
  LET sp == SelectSeq(Indices(s), LAMBDA i : s[i] = SP)
  IN IF sp = <<>> THEN s ELSE SubSeq(s, 1, sp[1] - 1)

\* s.startswith(p)
StartsWith(s, p) == Len(s) >= Len(p) /\ SubSeq(s, 1, Len(p)) = p

\* p in s  (substring test)
Contains(s, p) ==
  \E i \in 0..(Len(s) - Len(p)) : SubSeq(s, i + 1, i + Len(p)) = p

HTTP == <<"h", "t", "t", "p">>

\* Iterating a text file / f.readlines(): the lines of the content, each with
\* its terminating newline, the last one possibly without.
FileLines(s) ==
  LET nl == SelectSeq(Indices(s), LAMBDA i : s[i] = NL)
      n == Len(nl)
      last == IF n = 0 THEN 0 ELSE nl[n]
      total == IF Len(s) > last THEN n + 1 ELSE n
  IN [k \in 1..total |->
        SubSeq(s, IF k = 1 THEN 1 ELSE nl[k - 1] + 1,
                  IF k <= n THEN nl[k] ELSE Len(s))]

\* Python's < on strings: lexicographic by code point.
LexLess(a, b) ==
  \E i \in 1..(MinOf(Len(a), Len(b)) + 1) :
     /\ \A j \in 1..(i - 1) : a[j] = b[j]
     /\ \/ i = Len(a) + 1 /\ i <= Len(b)
        \/ i <= Len(a) /\ i <= Len(b) /\ Ord(a[i]) < Ord(b[i])

\* sorted(S) for a set of strings.
RECURSIVE SortedDescending(_)
SortedDescending(S) ==
  IF S = {} THEN <<>>
  ELSE LET m == CHOOSE x \in S : \A y \in S : x = y \/ LexLess(y, x)
       IN <<m>> \o SortedDescending(S \ {m})
RECURSIVE Sorted(_)
Sorted(S) ==
  IF S = {} THEN <<>>
  ELSE LET m == CHOOSE x \in S : \A y \in S : x = y \/ LexLess(x, y)
       IN <<m>> \o Sorted(S \ {m})

\* for url in seq: f.write(url + "\n")
RECURSIVE WriteLines(_)
WriteLines(seq) ==
  IF seq = <<>> THEN <<>> ELSE Head(seq) \o <<NL>> \o WriteLines(Tail(seq))


(***************************************************************************)
(* Configuration and names.                                                 *)
(***************************************************************************)
None == "<None>"

\* Python truthiness of an optional string: None and "" are false.
Truthy(v) == v # None /\ v # ""

REQUIRED_TOOLS == <<"subfinder", "dnsx", "naabu", "httpx", "katana">>
DEFAULT_PORTS == "80,443,8080,8443,8000,8008,8888"

\* The text artifacts of the output directory.
SUBFINDER_OUT == "subfinder.txt"
DNSX_OUT == "dnsx.txt"
NAABU_OUT == "naabu.txt"
HTTPX_OUT == "httpx.txt"
KATANA_INPUT == "katana_input_clean.txt"
KATANA_OUT == "katana.txt"
BURP_FILE == "urls_for_burp.txt"
SUMMARY_FILE == "summary.json"
PROMPT_FILE == "llm_prompt.txt"

\* The keys of the summary's stats.
StatKeys ==
  {"subdomains", "resolved", "ports", "http_services", "endpoints", "burp_import"}

TextFiles ==
  {SUBFINDER_OUT, DNSX_OUT, NAABU_OUT, HTTPX_OUT, KATANA_INPUT, KATANA_OUT,
   BURP_FILE}

\* os.path.join(self.output_dir, name), with --output at its default.
OutputDir == "recon_results"
PathOf(name) == OutputDir \o "/" \o name

\* The characters of the target domains the model uses.
Chars(s) ==
  CASE s = "b.c" -> <<"b", ".", "c">>
    [] OTHER -> <<>>

(***************************************************************************)
(* State.                                                                   *)
(***************************************************************************)
VARIABLES
  domain,        \* args.domain: a domain string or None
  domain_list,   \* args.list: a path or None
  proxy,         \* args.proxy: a proxy address or None
  dry_run,       \* args.dry_run
  llm_analysis,  \* args.llm
  env,           \* the machine: is go installed, where the tools are
  dir_exists,    \* does the output directory exist
  fs,            \* text artifacts: name -> [exists, content]
  fs0,           \* the artifacts as they were before this run
  summary,       \* summary.json: [exists, target, stats]
  prompt,        \* llm_prompt.txt: [exists, urls]
  pc,            \* position in main()/execute()
  bins,          \* the binary paths execute() resolved
  katana_input,  \* the path handed to Katana with -list
  calls,         \* run_command calls so far: [step, command, ok, cause, stdout]
  procs,         \* external processes spawned so far (argument vectors)
  touched,       \* files the orchestrator created or wrote in this run
  diag,          \* the last error diagnostic printed
  burp_result,   \* what create_burp_file returned: [path, count]
  exit_code      \* process exit status; -1 while running

vars ==
  <<domain, domain_list, proxy, dry_run, llm_analysis, env, dir_exists, fs, fs0,
    summary, prompt, pc, bins, katana_input, calls, procs, touched, diag,
    burp_result, exit_code>>

config == <<domain, domain_list, proxy, dry_run, llm_analysis, env, fs0>>

Missing == [exists |-> FALSE, content |-> <<>>]
File(c) == [exists |-> TRUE, content |-> c]

(***************************************************************************)
(* The machine: tool location.                                              *)
(***************************************************************************)
ToolSet == Range(REQUIRED_TOOLS)

\* Where a tool is installed: under ~/go/bin (one of the candidate paths of
\* get_binary_path), elsewhere on PATH, or nowhere.
GoBinPath(tool) == "~/go/bin/" \o tool
WhichPath(tool) == "/opt/bin/" \o tool

Envs ==
  { [go |-> TRUE, where |-> [t \in ToolSet |-> "gobin"]],
    [go |-> FALSE, where |-> [t \in ToolSet |-> "path"]],
    [go |-> TRUE, where |-> [t \in ToolSet |-> IF t = "naabu" THEN "none" ELSE "gobin"]] }

\* shutil.which(tool) and os.path.exists(path) on this machine.
which(tool) == IF env.where[tool] = "path" THEN WhichPath(tool) ELSE None
path_exists(path) ==
  \E t \in ToolSet :
     \/ env.where[t] = "gobin" /\ path = GoBinPath(t)
     \/ env.where[t] = "path" /\ path = WhichPath(t)

\* get_binary_path: the path it returns ...
get_binary_path(tool) ==
  IF path_exists(GoBinPath(tool)) THEN GoBinPath(tool)
  ELSE IF which(tool) # None THEN which(tool) ELSE tool

\* ... and the external processes it spawns on the way: `go env GOBIN` when go
\* is installed, and `<path> -version` for an httpx found at a candidate path.
get_binary_path_procs(tool) ==
  (IF env.go THEN << <<"go", "env", "GOBIN">> >> ELSE <<>>)
  \o (IF tool = "httpx" /\ path_exists(GoBinPath(tool))
      THEN << <<GoBinPath(tool), "-version">> >> ELSE <<>>)

RECURSIVE LocateAllProcs(_)
LocateAllProcs(tools) ==
  IF tools = <<>> THEN <<>>
  ELSE get_binary_path_procs(Head(tools)) \o LocateAllProcs(Tail(tools))

\* check_tools: the tools it reports missing.
MissingTools ==
  {t \in ToolSet :
     LET path == get_binary_path(t)
     IN \/ path = t /\ which(t) = None
        \/ path # t /\ ~path_exists(path)}

(***************************************************************************)
(* Inputs: the command line, the prior output directory, the tools' output. *)
(***************************************************************************)
Targets ==
  { [domain |-> "b.c", list |-> None], [domain |-> None, list |-> "targets.txt"] }

Proxies == {None, "", "http://127.0.0.1:8080"}

\* The output directory before the run: absent, or left over from a run.
StaleLine == <<"x", NL>>
FreshDir == [dir |-> FALSE, files |-> [f \in TextFiles |-> Missing],
             summary |-> FALSE, prompt |-> FALSE]
StaleDir == [dir |-> TRUE, files |-> [f \in TextFiles |-> File(StaleLine)],
             summary |-> TRUE, prompt |-> TRUE]
PriorDirs == {FreshDir, StaleDir}

NoSummary == [exists |-> FALSE, target |-> None, stats |-> [k \in StatKeys |-> 0]]
StaleSummary == [exists |-> TRUE, target |-> "old", stats |-> [k \in StatKeys |-> 1]]
NoPrompt == [exists |-> FALSE, urls |-> <<>>]
StalePrompt == [exists |-> TRUE, urls |-> << <<"x">> >>]

NoResult == [path |-> None, count |-> 0]

InitConfig ==
  /\ \E t \in Targets : domain = t.domain /\ domain_list = t.list
  /\ proxy \in Proxies
  /\ dry_run \in BOOLEAN
  /\ llm_analysis \in BOOLEAN
  /\ env \in Envs

\* ReconPipeline.__init__ on a prior directory d: the directory is made
\* unless this is a dry run.
Constructed(d) ==
  /\ dir_exists = (d.dir \/ ~dry_run)
  /\ fs = d.files
  /\ fs0 = d.files
  /\ summary = IF d.summary THEN StaleSummary ELSE NoSummary
  /\ prompt = IF d.prompt THEN StalePrompt ELSE NoPrompt
  /\ touched = IF ~dry_run /\ ~d.dir THEN {OutputDir} ELSE {}
  /\ bins = [t \in ToolSet |-> t]
  /\ katana_input = None
  /\ calls = <<>>
  /\ procs = <<>>
  /\ diag = None
  /\ burp_result = NoResult
  /\ exit_code = -1

Init ==
  /\ InitConfig
  /\ \E d \in PriorDirs : Constructed(d)
  /\ pc = "check_tools"

(***************************************************************************)
(* execute(): tool check and location.                                      *)
(***************************************************************************)
Exit(code) == pc' = "done" /\ exit_code' = code

\* check_tools(): sys.exit(1) when a tool is missing.
CheckTools ==
  /\ pc = "check_tools"
  /\ procs' = procs \o LocateAllProcs(REQUIRED_TOOLS)
  /\ IF MissingTools # {}
     THEN /\ Exit(1)
          /\ diag' = "Missing Dependencies"
     ELSE /\ pc' = "locate"
          /\ UNCHANGED <<exit_code, diag>>
  /\ UNCHANGED <<config, dir_exists, fs, summary, prompt, bins, katana_input,
                 calls, touched, burp_result>>

\* bin_subfinder = self.get_binary_path("subfinder") ... bin_katana = ...
LocateBinaries ==
  /\ pc = "locate"
  /\ bins' = [t \in ToolSet |-> get_binary_path(t)]
  /\ procs' = procs \o LocateAllProcs(REQUIRED_TOOLS)
  /\ pc' = "subfinder"
  /\ UNCHANGED <<config, dir_exists, fs, summary, prompt, katana_input, calls,
                 touched, diag, burp_result, exit_code>>

(***************************************************************************)
(* run_command.                                                             *)
(***************************************************************************)
\* What running a tool can do: subprocess.run raises (the binary cannot be
\* spawned), the tool exits non-zero with some stderr, or it exits zero with
\* some stdout; writing the output file can then fail at open() or, with the
\* file already truncated, at write().
Result(kind, stdout, stderr, io) ==
  [kind |-> kind, stdout |-> stdout, stderr |-> stderr, io |-> io]

Failures ==
  { Result("spawn_error", <<>>, "", "ok"),
    Result("nonzero", <<>>, "error", "ok"),
    Result("nonzero", <<>>, "No such option", "ok") }

Successes(stdouts) ==
  { Result("zero", out, "", io) : out \in stdouts, io \in {"ok"} }
  \cup { Result("zero", out, "", io) :
           out \in {o \in stdouts : Strip(o) # <<>>},
           io \in {"open_error", "write_error"} }

\* "httpx" in command[0]
IsHttpxBinary(path) == path \in {"httpx", GoBinPath("httpx"), WhichPath("httpx")}

\* The value run_command returns.
\* A variant that reports success whatever happened.
\* A variant whose except clause does not return False.
run_command_returns_after_exception(res) ==
  dry_run \/ res.kind = "spawn_error" \/ res.kind = "zero"
run_command_returns_always(res) == TRUE
run_command_returns(res) ==
  dry_run \/ (res.kind = "zero" /\ res.io = "ok")

\* The diagnostic run_command prints for a result.
run_command_diag(command, res) ==
  CASE dry_run -> diag
    [] res.kind = "spawn_error" -> "Exception"
    [] res.kind = "nonzero" ->
         IF IsHttpxBinary(command[1]) /\ res.stderr = "No such option"
         THEN "Version Conflict" ELSE "Error running"
    [] res.io # "ok" -> "Exception"
    [] OTHER -> diag

\* The output file after run_command: open(output_file, 'w') and
\* f.write(content + '\n') when the stripped stdout is not empty.
\* A variant that leaves the file alone when the tool printed nothing.
\* A variant that goes on to write the file after a non-zero exit.
\* A variant that opens the output file in append mode.
run_command_file_append(old, res) ==
  CASE dry_run \/ res.kind # "zero" \/ res.io = "open_error" -> old
    [] res.io = "write_error" -> File(old.content)
    [] OTHER ->
         LET content == Strip(res.stdout)
         IN File(old.content \o (IF content # <<>> THEN content \o <<NL>> ELSE <<>>))
run_command_file_always_write(old, res) ==
  CASE dry_run \/ res.kind = "spawn_error" \/ res.io = "open_error" -> old
    [] res.io = "write_error" -> File(<<>>)
    [] OTHER ->
         LET content == Strip(res.stdout)
         IN File(IF content # <<>> THEN content \o <<NL>> ELSE <<>>)
run_command_file_no_touch(old, res) ==
  CASE dry_run \/ res.kind # "zero" \/ res.io = "open_error" -> old
    [] res.io = "write_error" -> File(<<>>)
    [] OTHER ->
         LET content == Strip(res.stdout)
         IN IF content # <<>> THEN File(content \o <<NL>>) ELSE old
run_command_file(old, res) ==
  CASE dry_run \/ res.kind # "zero" \/ res.io = "open_error" -> old
    [] res.io = "write_error" -> File(<<>>)
    [] OTHER ->
         LET content == Strip(res.stdout)
         IN File(IF content # <<>> THEN content \o <<NL>> ELSE <<>>)

\* Why a call of run_command failed: the tool's exit status or the exception
\* the except clause caught ("none" for a call that returned True).
run_command_cause(res) ==
  CASE dry_run -> "none"
    [] res.kind # "zero" -> res.kind
    [] res.io # "ok" -> res.io
    [] OTHER -> "none"

run_command(command, step_name, output_file, res) ==
  /\ calls' = Append(calls, [step |-> step_name, command |-> command,
                             ok |-> run_command_returns(res),
                             cause |-> run_command_cause(res),
                             stdout |-> IF dry_run THEN <<>> ELSE res.stdout])
  /\ procs' = IF dry_run \/ res.kind = "spawn_error" THEN procs
              ELSE Append(procs, command)
  /\ fs' = [fs EXCEPT ![output_file] = run_command_file(fs[output_file], res)]
  /\ touched' = IF fs'[output_file] # fs[output_file]
                   \/ (~dry_run /\ res.kind = "zero" /\ res.io # "open_error")
                THEN touched \cup {output_file} ELSE touched
  /\ diag' = run_command_diag(command, res)

\* if not self.run_command(...): return
\* main() then returns and the interpreter exits with status 0.
NeverReturn(ok, next) == pc' = next /\ UNCHANGED exit_code
ReturnUnless(ok, next) ==
  IF ok THEN pc' = next /\ UNCHANGED exit_code ELSE Exit(0)

(***************************************************************************)
(* The tools' possible outputs in a pipeline run.                           *)
(***************************************************************************)
LineHttp == HTTP
LineHttpA == HTTP \o <<"a">>
LineHttpAnnotated == HTTP \o <<" ", "[", "a", "]">>
LineHttpTabbed == HTTP \o <<TAB, "[", "a", "]">>
LineHttpAPadded == <<" ">> \o LineHttpA \o <<" ">>
LineOther == <<"x">>
LineOtherAnnotated == <<"x", " ", "[", "a", "]">>

SubfinderStdouts ==
  { <<>>, WriteLines(<< <<"a", ".", "b", ".", "c">> >>),
    WriteLines(<< <<"b", ".", "c">> >>), WriteLines(<< LineOther >>) }
DnsxStdouts == { <<>>, WriteLines(<< LineOther >>) }
NaabuStdouts == { <<>>, WriteLines(<< LineOther >>) }
HttpxStdouts ==
  { <<>>, WriteLines(<< LineHttpAnnotated >>),
    WriteLines(<< LineHttpTabbed, LineOtherAnnotated >>),
    WriteLines(<< LineHttpAnnotated, LineHttpAPadded >>) }
KatanaStdouts ==
  { <<>>, WriteLines(<< LineHttp, LineHttpAPadded >>),
    WriteLines(<< LineOther, LineHttp >>) }

(***************************************************************************)
(* execute(): the five stages.                                              *)
(***************************************************************************)
cmd_sub ==
  <<bins["subfinder"], "-all", "-o", PathOf(SUBFINDER_OUT)>>
  \o (IF Truthy(domain) THEN <<"-d", domain>>
      ELSE IF Truthy(domain_list) THEN <<"-dL", domain_list>> ELSE <<>>)

cmd_dnsx == <<bins["dnsx"], "-l", PathOf(SUBFINDER_OUT), "-o", PathOf(DNSX_OUT)>>

cmd_naabu ==
  <<bins["naabu"], "-l", PathOf(DNSX_OUT), "-p", DEFAULT_PORTS, "-o",
    PathOf(NAABU_OUT)>>

cmd_httpx_no_proxy ==
  <<bins["httpx"], "-l", PathOf(NAABU_OUT), "-title", "-tech-detect",
    "-status-code", "-o", PathOf(HTTPX_OUT)>>
cmd_httpx ==
  <<bins["httpx"], "-l", PathOf(NAABU_OUT), "-title", "-tech-detect",
    "-status-code", "-o", PathOf(HTTPX_OUT)>>
  \o (IF Truthy(proxy) THEN <<"-http-proxy", proxy>> ELSE <<>>)

cmd_katana ==
  <<bins["katana"], "-list", katana_input, "-o", PathOf(KATANA_OUT), "-jc",
    "-kf", "all", "-c", "10", "-d", "2">>
  \o (IF Truthy(proxy) THEN <<"-proxy", proxy>> ELSE <<>>)

Stage(at, command, step_name, output_file, stdouts, next) ==
  /\ pc = at
  /\ \E res \in Failures \cup Successes(stdouts) :
        /\ run_command(command, step_name, output_file, res)
        /\ ReturnUnless(run_command_returns(res), next)
  /\ UNCHANGED <<config, dir_exists, summary, prompt, bins, katana_input,
                 burp_result>>

Subfinder ==
  Stage("subfinder", cmd_sub, "Subfinder", SUBFINDER_OUT, SubfinderStdouts,
        "root_domain")

\* The text of the subdomains file after the root-domain step.
root_domain(content, d) ==
  IF ~Contains(content, d) THEN content \o <<NL>> \o d \o <<NL>> ELSE content

\* "Robustness: Ensure root domain is included".  A failure to open or write
\* the file is an exception nothing catches: the process ends with a traceback.
RootDomain ==
  /\ pc = "root_domain"
  /\ IF Truthy(domain) /\ ~dry_run /\ fs[SUBFINDER_OUT].exists
     THEN \E io \in {"ok", "error"} :
            IF io = "ok"
            THEN /\ fs' = [fs EXCEPT ![SUBFINDER_OUT] =
                             File(root_domain(fs[SUBFINDER_OUT].content, Chars(domain)))]
                 /\ touched' = IF fs' # fs THEN touched \cup {SUBFINDER_OUT} ELSE touched
                 /\ pc' = "dnsx"
                 /\ UNCHANGED <<exit_code, diag>>
            ELSE /\ Exit(1)
                 /\ diag' = "Traceback"
                 /\ UNCHANGED <<fs, touched>>
     ELSE /\ pc' = "dnsx"
          /\ UNCHANGED <<fs, touched, exit_code, diag>>
  /\ UNCHANGED <<config, dir_exists, summary, prompt, bins, katana_input, calls,
                 procs, burp_result>>

Dnsx == Stage("dnsx", cmd_dnsx, "DNSx", DNSX_OUT, DnsxStdouts, "naabu")

Naabu == Stage("naabu", cmd_naabu, "Naabu", NAABU_OUT, NaabuStdouts, "httpx")

Httpx == Stage("httpx", cmd_httpx, "HTTPx", HTTPX_OUT, HttpxStdouts, "katana_prep")

\* KATANA PREP: the cleaned URLs written to katana_input_clean.txt.
\* A variant that hands the http-services lines over as they are.
clean_httpx_copy(content) == content
clean_httpx(content) ==
  LET lines == FileLines(content)
      cleaned == [i \in 1..Len(lines) |-> Strip(FirstField(lines[i]))]
  IN WriteLines(SelectSeq(cleaned, LAMBDA u : u # <<>>))

KatanaPrep ==
  /\ pc = "katana_prep"
  /\ IF ~dry_run /\ fs[HTTPX_OUT].exists
     THEN \E io \in {"ok", "error"} :
            IF io = "ok"
            THEN /\ fs' = [fs EXCEPT ![KATANA_INPUT] =
                             File(clean_httpx(fs[HTTPX_OUT].content))]
                 /\ touched' = touched \cup {KATANA_INPUT}
                 /\ katana_input' = PathOf(KATANA_INPUT)
                 /\ pc' = "katana"
                 /\ UNCHANGED <<exit_code, diag>>
            ELSE /\ Exit(1)
                 /\ diag' = "Traceback"
                 /\ UNCHANGED <<fs, touched, katana_input>>
     ELSE /\ katana_input' = PathOf(HTTPX_OUT)
          /\ pc' = "katana"
          /\ UNCHANGED <<fs, touched, exit_code, diag>>
  /\ UNCHANGED <<config, dir_exists, summary, prompt, bins, calls, procs,
                 burp_result>>

Katana == Stage("katana", cmd_katana, "Katana", KATANA_OUT, KatanaStdouts, "burp")

(***************************************************************************)
(* Post-processing: create_burp_file, generate_summary, run_llm_advisory.   *)
(***************************************************************************)
\* The lines of a file that may be absent (os.path.exists guards the read).
LinesOf(f) == IF f.exists THEN Range(FileLines(f.content)) ELSE {}

\* unique_urls after both loops of create_burp_file.
unique_urls_no_filter(httpx, katana) ==
  {Strip(FirstField(line)) : line \in LinesOf(httpx)}
  \cup {Strip(line) : line \in LinesOf(katana)}
unique_urls(httpx, katana) ==
  {u \in {Strip(FirstField(line)) : line \in LinesOf(httpx)} : StartsWith(u, HTTP)}
  \cup {u \in {Strip(line) : line \in LinesOf(katana)} : StartsWith(u, HTTP)}

\* for url in sorted(unique_urls): f.write(url + "\n")
burp_content_unsorted(urls) == WriteLines(SortedDescending(urls))
burp_content(urls) == WriteLines(Sorted(urls))

\* An exception in a post-processing step is caught nowhere: execute() and
\* main() are left by it and the interpreter exits with status 1.
CreateBurpFile ==
  /\ pc = "burp"
  /\ IF dry_run
     THEN /\ burp_result' = NoResult
          /\ pc' = "summary"
          /\ UNCHANGED <<fs, touched, exit_code, diag>>
     ELSE \E io \in {"ok", "error"} :
            IF io = "ok"
            THEN LET urls == unique_urls(fs[HTTPX_OUT], fs[KATANA_OUT])
                 IN /\ fs' = [fs EXCEPT ![BURP_FILE] = File(burp_content(urls))]
                    /\ burp_result' = [path |-> PathOf(BURP_FILE),
                                       count |-> Cardinality(urls)]
                    /\ touched' = touched \cup {BURP_FILE}
                    /\ pc' = "summary"
                    /\ UNCHANGED <<exit_code, diag>>
            ELSE /\ Exit(1)
                 /\ diag' = "Traceback"
                 /\ UNCHANGED <<fs, touched, burp_result>>
  /\ UNCHANGED <<config, dir_exists, summary, prompt, bins, katana_input, calls,
                 procs>>

\* generate_summary: files = {"subdomains": "subfinder.txt", ...}
\* A variant with the wrong file behind the burp_import key.
StatFile_misnamed(key) ==
  CASE key = "subdomains" -> SUBFINDER_OUT
    [] key = "resolved" -> DNSX_OUT
    [] key = "ports" -> NAABU_OUT
    [] key = "http_services" -> HTTPX_OUT
    [] key = "endpoints" -> KATANA_OUT
    [] key = "burp_import" -> KATANA_INPUT
StatFile(key) ==
  CASE key = "subdomains" -> SUBFINDER_OUT
    [] key = "resolved" -> DNSX_OUT
    [] key = "ports" -> NAABU_OUT
    [] key = "http_services" -> HTTPX_OUT
    [] key = "endpoints" -> KATANA_OUT
    [] key = "burp_import" -> BURP_FILE

\* len(f.readlines()) if the file exists, else 0
count_nonblank(f) ==
  IF f.exists
  THEN Len(SelectSeq(FileLines(f.content), LAMBDA l : Strip(l) # <<>>)) ELSE 0
count_lines(f) == IF f.exists THEN Len(FileLines(f.content)) ELSE 0

GenerateSummary ==
  /\ pc = "summary"
  /\ IF dry_run
     THEN /\ pc' = "llm"
          /\ UNCHANGED <<summary, touched, exit_code, diag>>
     ELSE \E io \in {"ok", "error"} :
            IF io = "ok"
            THEN /\ summary' =
                      [exists |-> TRUE,
                       target |-> IF Truthy(domain) THEN domain ELSE domain_list,
                       stats |-> [k \in StatKeys |-> count_lines(fs[StatFile(k)])]]
                 /\ touched' = touched \cup {SUMMARY_FILE}
                 /\ pc' = "llm"
                 /\ UNCHANGED <<exit_code, diag>>
            ELSE /\ Exit(1)
                 /\ diag' = "Traceback"
                 /\ UNCHANGED <<summary, touched>>
  /\ UNCHANGED <<config, dir_exists, fs, prompt, bins, katana_input, calls,
                 procs, burp_result>>

\* run_llm_advisory: urls = [line.strip() for line in f.readlines() if line.strip()]
PROMPT_LIMIT == 200

nonblank_stripped(content) ==
  LET lines == FileLines(content)
      stripped == [i \in 1..Len(lines) |-> Strip(lines[i])]
  IN SelectSeq(stripped, LAMBDA u : u # <<>>)

\* urls[:200]
prompt_urls_unlimited(urls) == urls
prompt_urls(urls) == SubSeq(urls, 1, MinOf(PROMPT_LIMIT, Len(urls)))

\* if self.llm_analysis: self.run_llm_advisory()
LlmAdvisory ==
  /\ pc = "llm"
  /\ IF llm_analysis /\ ~dry_run /\ fs[KATANA_OUT].exists
        /\ nonblank_stripped(fs[KATANA_OUT].content) # <<>>
     THEN \E io \in {"ok", "error"} :
            IF io = "ok"
            THEN /\ prompt' =
                      [exists |-> TRUE,
                       urls |-> prompt_urls(nonblank_stripped(fs[KATANA_OUT].content))]
                 /\ touched' = touched \cup {PROMPT_FILE}
                 /\ pc' = "final"
                 /\ UNCHANGED <<exit_code, diag>>
            ELSE /\ Exit(1)
                 /\ diag' = "Traceback"
                 /\ UNCHANGED <<prompt, touched>>
     ELSE /\ pc' = "final"
          /\ UNCHANGED <<prompt, touched, exit_code, diag>>
  /\ UNCHANGED <<config, dir_exists, fs, summary, bins, katana_input, calls,
                 procs, burp_result>>

\* The final panel; execute() and main() return.
Finish ==
  /\ pc = "final"
  /\ diag' = "Recon Chain Complete!"
  /\ Exit(0)
  /\ UNCHANGED <<config, dir_exists, fs, summary, prompt, bins, katana_input,
                 calls, procs, touched, burp_result>>

Next ==
  \/ CheckTools
  \/ LocateBinaries
  \/ Subfinder
  \/ RootDomain
  \/ Dnsx
  \/ Naabu
  \/ Httpx
  \/ KatanaPrep
  \/ Katana
  \/ CreateBurpFile
  \/ GenerateSummary
  \/ LlmAdvisory
  \/ Finish

Spec == Init /\ [][Next]_vars

(***************************************************************************)
(* The post-processing methods on an arbitrary output directory: the        *)
(* http-services and crawl files hold any text of up to MaxLines chunks (or  *)
(* are absent), the crawl file may also be longer than the prompt limit.     *)
(***************************************************************************)
BoundedSeqs(S, n) == UNION {[1..k -> S] : k \in 0..n}

RECURSIVE Concat(_)
Concat(seq) == IF seq = <<>> THEN <<>> ELSE Head(seq) \o Concat(Tail(seq))

HttpxChunks ==
  { LineHttpAnnotated \o <<NL>>, LineHttpTabbed \o <<NL>>,
    LineOtherAnnotated \o <<NL>>, <<" ">> \o LineHttpA }
KatanaChunks ==
  { LineHttp \o <<NL>>, LineHttpAPadded \o <<NL>>, LineOther \o <<NL>>, <<NL>> }

\* n one-character lines "a", "b", "a", ... (the last without a newline).
LongText(n) ==
  [i \in 1..(2 * n - 1) |->
     IF i % 2 = 0 THEN NL ELSE IF i % 4 = 1 THEN "a" ELSE "b"]

Texts(chunks) == {Concat(q) : q \in BoundedSeqs(chunks, MaxLines)}

HttpxFiles == {Missing} \cup {File(c) : c \in Texts(HttpxChunks)}
KatanaFiles ==
  {Missing} \cup {File(c) : c \in Texts(KatanaChunks)}
  \cup {File(LongText(PROMPT_LIMIT)), File(LongText(PROMPT_LIMIT + 1))}
OtherFiles == {Missing, File(StaleLine), File(<<"x", NL, NL, "x">>)}

InitPost ==
  /\ domain = "b.c"
  /\ domain_list = None
  /\ proxy = None
  /\ dry_run = FALSE
  /\ llm_analysis \in BOOLEAN
  /\ env \in {e \in Envs : e.go /\ \A t \in ToolSet : e.where[t] = "gobin"}
  /\ \E h \in HttpxFiles, k \in KatanaFiles, o \in OtherFiles :
        fs = [f \in TextFiles |->
                IF f = HTTPX_OUT THEN h ELSE IF f = KATANA_OUT THEN k ELSE o]
  /\ fs0 = fs
  /\ dir_exists = TRUE
  /\ summary = NoSummary
  /\ prompt = NoPrompt
  /\ touched = {}
  /\ bins = [t \in ToolSet |-> get_binary_path(t)]
  /\ katana_input = None
  /\ calls = <<>>
  /\ procs = <<>>
  /\ diag = None
  /\ burp_result = NoResult
  /\ exit_code = -1
  /\ pc = "burp"

NextPost ==
  \/ CreateBurpFile
  \/ GenerateSummary
  \/ LlmAdvisory
  \/ Finish

SpecPost == InitPost /\ [][NextPost]_vars

(***************************************************************************)
(* Vocabulary of the properties.                                            *)
(***************************************************************************)
STAGE_ORDER == <<"Subfinder", "DNSx", "Naabu", "HTTPx", "Katana">>

\* The artifact each stage writes, by position in STAGE_ORDER.
StageArtifact == <<SUBFINDER_OUT, DNSX_OUT, NAABU_OUT, HTTPX_OUT, KATANA_OUT>>

\* What only stages after position n, or the steps after all stages, produce.
ArtifactsAfter(n) ==
  {StageArtifact[k] : k \in (n + 1)..Len(StageArtifact)}
  \cup {KATANA_INPUT, BURP_FILE, SUMMARY_FILE, PROMPT_FILE}

Untouched(f) ==
  /\ f \notin touched
  /\ f \in TextFiles => fs[f] = fs0[f]

\* A line as text: without its line terminator.
LineText(l) ==
  IF l # <<>> /\ l[Len(l)] = NL THEN SubSeq(l, 1, Len(l) - 1) ELSE l

\* The lines of a text, as texts, in order and as a set.
TextLines(content) ==
  LET lines == FileLines(content)
  IN [i \in 1..Len(lines) |-> LineText(lines[i])]
LineSet(f) == IF f.exists THEN Range(TextLines(f.content)) ELSE {}

\* s without its leading and trailing whitespace.
Trimmed(s) ==
  IF \A i \in 1..Len(s) : IsSpace(s[i]) THEN <<>>
  ELSE LET a == CHOOSE i \in 1..Len(s) :
                  ~IsSpace(s[i]) /\ \A j \in 1..(i - 1) : IsSpace(s[j])
           b == CHOOSE i \in 1..Len(s) :
                  ~IsSpace(s[i]) /\ \A j \in (i + 1)..Len(s) : IsSpace(s[j])
       IN SubSeq(s, a, b)

\* The longest prefix of s with no character of the set stop.
Before(s, stop) ==
  LET k == CHOOSE k \in 0..Len(s) :
             /\ \A j \in 1..k : s[j] \notin stop
             /\ k = Len(s) \/ s[k + 1] \in stop
  IN SubSeq(s, 1, k)

Whitespace == {" ", "\t", "\n", "\r", "\f"}

\* Number of lines of a text: one per newline, and one more for an
\* unterminated last line.
RawLineCount(f) ==
  IF ~f.exists THEN 0
  ELSE Cardinality({i \in 1..Len(f.content) : f.content[i] = NL})
       + (IF f.content # <<>> /\ f.content[Len(f.content)] # NL THEN 1 ELSE 0)

FailedAt(n) == n \in 1..Len(calls) /\ ~calls[n].ok

(***************************************************************************)
(* C1.  Short-circuit: if the stage at position n fails, no run_command     *)
(* call follows it, nothing that only later stages or the post-processing   *)
(* produce is created or modified, and the finished run reports failure.    *)
(***************************************************************************)
C1_ShortCircuit ==
  \A n \in 1..Len(calls) :
     FailedAt(n) =>
       /\ Len(calls) = n
       /\ \A f \in ArtifactsAfter(n) : Untouched(f)
       /\ pc = "done" => exit_code # 0

(***************************************************************************)
(* C2.  Exit behaviour: a finished process has a non-zero status whenever a *)
(* required tool is missing or a stage failed, and status zero only when    *)
(* all five stages succeeded and the post-processing completed.             *)
(***************************************************************************)
AllStagesSucceeded ==
  Len(calls) = Len(STAGE_ORDER) /\ \A n \in 1..Len(calls) : calls[n].ok

C2_ExitBehaviour ==
  pc = "done" =>
    /\ (MissingTools # {} \/ \E n \in 1..Len(calls) : FailedAt(n)) => exit_code # 0
    /\ exit_code = 0 => AllStagesSucceeded /\ diag = "Recon Chain Complete!"

(***************************************************************************)
(* C3.  Dry-run: from construction to the end of execute() nothing in or    *)
(* under the output directory is created or modified and no external        *)
(* process is spawned, tool location and tool checking included.            *)
(***************************************************************************)
C3_DryRun ==
  dry_run =>
    /\ touched = {}
    /\ fs = fs0
    /\ procs = <<>>

(***************************************************************************)
(* C4.  Root domain: in a non-dry run on a single domain D, once the        *)
(* Subdomain-Enum stage has succeeded and before DNSx starts, the           *)
(* subdomains file has a line that is exactly D.                            *)
(***************************************************************************)
C4_RootDomainLine ==
  (Truthy(domain) /\ ~dry_run /\ pc = "dnsx") =>
    Chars(domain) \in LineSet(fs[SUBFINDER_OUT])

(***************************************************************************)
(* C5.  The consolidated-URL file written by create_burp_file has no two    *)
(* equal lines and its lines are in strictly ascending order.               *)
(***************************************************************************)
C5_SortedUnique ==
  BURP_FILE \in touched =>
    LET lines == TextLines(fs[BURP_FILE].content)
    IN /\ \A i, j \in 1..Len(lines) : i # j => lines[i] # lines[j]
       /\ \A i \in 1..(Len(lines) - 1) : LexLess(lines[i], lines[i + 1])

\* Two distinct URLs written, one of them found in both input files.
C5_Witness ==
  /\ BURP_FILE \in touched
  /\ Len(TextLines(fs[BURP_FILE].content)) >= 2
  /\ LineHttp \in LineSet(fs[KATANA_OUT])
  /\ LineHttpAnnotated \in LineSet(fs[HTTPX_OUT])

(***************************************************************************)
(* C6.  The lines of the consolidated-URL file are exactly: for each        *)
(* http-services line, the text before its first whitespace character when  *)
(* that begins with "http"; for each crawl line, the trimmed line when it   *)
(* begins with "http"; and the returned count is the size of that set.      *)
(***************************************************************************)
CrawlUrls == {u \in {Trimmed(l) : l \in LineSet(fs[KATANA_OUT])} : StartsWith(u, HTTP)}

C6_LeadingWhitespaceToken ==
  BURP_FILE \in touched =>
    LET urls == {u \in {Before(l, Whitespace) : l \in LineSet(fs[HTTPX_OUT])} :
                   StartsWith(u, HTTP)} \cup CrawlUrls
    IN /\ LineSet(fs[BURP_FILE]) = urls
       /\ burp_result.count = Cardinality(urls)

\* C6 as amended: for each http-services line, the text before its first
\* space character (U+0020), trimmed of surrounding whitespace, when that
\* begins with "http"; the crawl lines and the count as claimed.
C6_LeadingSpaceToken ==
  BURP_FILE \in touched =>
    LET urls == {u \in {Trimmed(Before(l, {SP})) : l \in LineSet(fs[HTTPX_OUT])} :
                   StartsWith(u, HTTP)} \cup CrawlUrls
    IN /\ LineSet(fs[BURP_FILE]) = urls
       /\ burp_result.count = Cardinality(urls)

\* "U [a]" in the http-services file and "U" in the crawl file: one entry U.
C6_Witness ==
  /\ BURP_FILE \in touched
  /\ fs[HTTPX_OUT] = File(LineHttpAnnotated \o <<NL>>)
  /\ fs[KATANA_OUT] = File(LineHttp \o <<NL>> \o LineOther \o <<NL>>)
  /\ LineSet(fs[BURP_FILE]) = {LineHttp}
  /\ burp_result.count = 1

(***************************************************************************)
(* C7.  Each count of the Run Summary is the raw line count (blank lines    *)
(* included) of its file when generate_summary runs, zero for a missing     *)
(* file.                                                                    *)
(***************************************************************************)
C7_SummaryCounts ==
  SUMMARY_FILE \in touched =>
    \A k \in StatKeys : summary.stats[k] = RawLineCount(fs[StatFile(k)])

\* A summary over a missing file and a file with a blank line.
C7_Witness ==
  /\ SUMMARY_FILE \in touched
  /\ ~fs[HTTPX_OUT].exists /\ summary.stats["http_services"] = 0
  /\ fs[SUBFINDER_OUT] = File(<<"x", NL, NL, "x">>)
  /\ summary.stats["subdomains"] = 3

(***************************************************************************)
(* C8.  A generated prompt lists exactly the first min(200, k) non-blank    *)
(* lines of the crawl file, in file order, nothing sorted or deduplicated;  *)
(* with the crawl file missing or without a non-blank line no prompt is     *)
(* written and the run does not fail.                                       *)
(***************************************************************************)
NonBlankLines(f) ==
  IF f.exists
  THEN SelectSeq(TextLines(f.content), LAMBDA l : \E i \in 1..Len(l) : ~IsSpace(l[i]))
  ELSE <<>>

FirstN(seq, n) == [i \in 1..MinOf(n, Len(seq)) |-> seq[i]]

C8_NoPromptWithoutInput ==
  NonBlankLines(fs[KATANA_OUT]) = <<>> =>
    /\ PROMPT_FILE \notin touched
    /\ (pc = "done" /\ SUMMARY_FILE \in touched) => exit_code = 0

C8_PromptIsFirstLines ==
  /\ PROMPT_FILE \in touched =>
       prompt.urls = FirstN(NonBlankLines(fs[KATANA_OUT]), PROMPT_LIMIT)
  /\ C8_NoPromptWithoutInput

\* C8 as amended: the list holds the first min(200, k) non-blank lines, each
\* trimmed of its leading and trailing whitespace; the rest as claimed.
C8_PromptIsFirstLinesTrimmed ==
  /\ PROMPT_FILE \in touched =>
       LET first == FirstN(NonBlankLines(fs[KATANA_OUT]), PROMPT_LIMIT)
       IN prompt.urls = [i \in 1..Len(first) |-> Trimmed(first[i])]
  /\ C8_NoPromptWithoutInput

\* A prompt cut at the limit: the crawl file has more non-blank lines.
C8_Witness ==
  /\ PROMPT_FILE \in touched
  /\ Len(prompt.urls) = PROMPT_LIMIT
  /\ Len(NonBlankLines(fs[KATANA_OUT])) > PROMPT_LIMIT

(***************************************************************************)
(* C9.  Proxy forwarding: a stage's argument vector carries the proxy       *)
(* address as the value of a proxy flag exactly when a proxy is configured  *)
(* and the stage is HTTPx or Katana; the Subfinder, DNSx and Naabu vectors  *)
(* never hold it.                                                           *)
(***************************************************************************)
ProxyFlags == {"-proxy", "-http-proxy"}
ProxyConfigured == proxy # None /\ proxy # ""

CarriesProxy(command) ==
  \E i \in 1..(Len(command) - 1) : command[i] \in ProxyFlags /\ command[i + 1] = proxy

C9_ProxyForwarding ==
  \A n \in 1..Len(calls) :
     LET c == calls[n]
     IN /\ CarriesProxy(c.command) <=>
             (ProxyConfigured /\ c.step \in {"HTTPx", "Katana"})
        /\ c.step \in {"Subfinder", "DNSx", "Naabu"} =>
             \A i \in 1..Len(c.command) : c.command[i] \notin ProxyFlags \cup {proxy}

\* A run with a proxy that reached Katana: both vectors carry the address.
C9_Witness ==
  /\ ProxyConfigured
  /\ Len(calls) = Len(STAGE_ORDER)
  /\ CarriesProxy(calls[4].command)
  /\ CarriesProxy(calls[5].command)
  /\ ~CarriesProxy(calls[1].command)

(***************************************************************************)
(* C10.  Stage order: the stages run form a prefix of Subfinder, DNSx,      *)
(* Naabu, HTTPx, Katana, each at most once, and a stage is invoked only     *)
(* after the one before it returned success.                                *)
(***************************************************************************)
C10_StageOrder ==
  /\ Len(calls) <= Len(STAGE_ORDER)
  /\ \A n \in 1..Len(calls) :
        /\ calls[n].step = STAGE_ORDER[n]
        /\ n < Len(calls) => calls[n].ok

\* A run stopped by the failure of its third stage.
C10_Witness ==
  /\ pc = "done"
  /\ Len(calls) = 3
  /\ ~calls[3].ok
  /\ calls[1].ok /\ calls[2].ok

(***************************************************************************)
(* C11.  Every artifact file exists on disk (possibly empty) in every state *)
(* after its producing stage has reported success, a tool that exits zero   *)
(* with empty output included.                                              *)
(***************************************************************************)
C11_ArtifactExists ==
  \A n \in 1..Len(calls) : calls[n].ok => fs[StageArtifact[n]].exists

\* C11 as it holds: in a run that is not a dry run, every artifact file
\* exists (possibly empty) in every state after its producing stage has
\* reported success.
C11_ArtifactExistsNonDry ==
  ~dry_run => \A n \in 1..Len(calls) : calls[n].ok => fs[StageArtifact[n]].exists

\* DNSx exits zero with empty output in a fresh directory: dnsx.txt is there
\* and empty.
C11_Witness ==
  /\ ~dry_run
  /\ fs0[DNSX_OUT] = Missing
  /\ Len(calls) >= 2
  /\ calls[2].ok /\ calls[2].stdout = <<>>
  /\ fs[DNSX_OUT] = File(<<>>)

(***************************************************************************)
(* C12.  No stage other than the first begins (has run_command called for   *)
(* it) in a state where its declared input artifact does not exist: DNSx    *)
(* needs subfinder.txt, Naabu dnsx.txt, HTTPx naabu.txt and Katana the      *)
(* crawl-input file it is given.                                            *)
(***************************************************************************)
\* The control point at which each stage's run_command is called.
StagePc == <<"subfinder", "dnsx", "naabu", "httpx", "katana">>

\* The file a stage's command names as its input (-l, -list).
StageInput(n) ==
  CASE n = 2 -> fs[SUBFINDER_OUT]
    [] n = 3 -> fs[DNSX_OUT]
    [] n = 4 -> fs[NAABU_OUT]
    [] n = 5 -> IF katana_input = PathOf(KATANA_INPUT) THEN fs[KATANA_INPUT]
                ELSE IF katana_input = PathOf(HTTPX_OUT) THEN fs[HTTPX_OUT]
                ELSE Missing

C12_InputsExist ==
  \A n \in 2..Len(StagePc) : pc = StagePc[n] => StageInput(n).exists

\* C12 as it holds: in a run that is not a dry run, no stage other than the
\* first begins in a state where its declared input artifact does not exist.
C12_InputsExistNonDry ==
  ~dry_run => \A n \in 2..Len(StagePc) : pc = StagePc[n] => StageInput(n).exists

\* Katana is about to be called on the crawl-input file this run created.
C12_Witness ==
  /\ ~dry_run
  /\ pc = "katana"
  /\ katana_input = PathOf(KATANA_INPUT)
  /\ fs0[KATANA_INPUT] = Missing /\ fs0[SUBFINDER_OUT] = Missing
  /\ fs[KATANA_INPUT].exists

(***************************************************************************)
(* C13.  When run_command marks a stage failed (a non-zero exit with the    *)
(* version-conflict signature, any other non-zero exit, or any other        *)
(* failure path) it returns failure and the stage's output file is neither  *)
(* created, written nor modified: its existence and content are the same    *)
(* as before the call.                                                      *)
(***************************************************************************)
C13_FailureLeavesFile ==
  \A n \in 1..Len(calls) :
     calls[n].cause # "none" =>
       /\ ~calls[n].ok
       /\ Untouched(StageArtifact[n])

\* The failures that happen before the output file is opened for writing.
FailsBeforeWrite == {"nonzero", "spawn_error", "open_error"}

\* C13 as it holds: when run_command marks a stage failed because the tool
\* exits non-zero (version-conflict signature or not), cannot be started, or
\* the output file cannot be opened, it returns failure and the stage's
\* output file is neither created, written nor modified; every other failure
\* path returns failure too.
C13_FailureBeforeWriteLeavesFile ==
  \A n \in 1..Len(calls) :
     /\ calls[n].cause # "none" => ~calls[n].ok
     /\ calls[n].cause \in FailsBeforeWrite => Untouched(StageArtifact[n])

\* HTTPx fails with the version-conflict signature over a previous run's
\* httpx.txt, which is still what it was.
C13_Witness ==
  /\ FailedAt(4)
  /\ diag = "Version Conflict"
  /\ fs0[HTTPX_OUT] = File(StaleLine)
  /\ fs[HTTPX_OUT] = File(StaleLine)

\* A post-processing step leaves every stage artifact as it was.
StageArtifactsKept ==
  pc \in {"burp", "summary", "llm"} =>
    \A n \in 1..Len(StageArtifact) : fs'[StageArtifact[n]] = fs[StageArtifact[n]]

\* Each post-processing step is followed by the next one.
PostStepsFollow ==
  /\ pc = "burp" => pc' = "summary"
  /\ pc = "summary" => pc' = "llm"
  /\ pc = "llm" => pc' = "final"

(***************************************************************************)
(* C14.  Post-processing failures are isolated per step: whether or not     *)
(* building the consolidated artifact, the summary or the prompt fails, the *)
(* remaining post-processing steps still run, and every stage artifact      *)
(* already produced is left unchanged.                                      *)
(***************************************************************************)
C14_PostProcessingIsolated == [][PostStepsFollow /\ StageArtifactsKept]_vars

\* The part of C14 about the stage artifacts alone.
C14_StageArtifactsKept == [][StageArtifactsKept]_vars

PostPcs == {"burp", "summary", "llm", "final"}

(***************************************************************************)
(* C15.  Post-processing runs only after all five stages succeeded, in the  *)
(* order create_burp_file, generate_summary, then (only if requested)       *)
(* run_llm_advisory; none of it starts before Crawl returned success.       *)
(***************************************************************************)
C15_PostProcessingOrder ==
  /\ (pc \in PostPcs \/ touched \cap {BURP_FILE, SUMMARY_FILE, PROMPT_FILE} # {})
       => AllStagesSucceeded
  /\ ~dry_run =>
       /\ pc \in {"summary", "llm", "final"} => BURP_FILE \in touched
       /\ pc \in {"llm", "final"} => SUMMARY_FILE \in touched
       /\ SUMMARY_FILE \in touched => BURP_FILE \in touched
       /\ PROMPT_FILE \in touched =>
            llm_analysis /\ SUMMARY_FILE \in touched /\ pc \in {"final", "done"}

\* A complete run that wrote the consolidated file, the summary and the
\* prompt into a fresh directory.
C15_Witness ==
  /\ pc = "done" /\ exit_code = 0
  /\ AllStagesSucceeded
  /\ fs0[BURP_FILE] = Missing
  /\ {BURP_FILE, SUMMARY_FILE, PROMPT_FILE} \subseteq touched

\* For each line of a text, what precedes its first character of the set
\* stop, trimmed; the non-empty results, in order.
LeadingTokens(content, stop) ==
  LET lines == TextLines(content)
      tokens == [i \in 1..Len(lines) |-> Trimmed(Before(lines[i], stop))]
  IN SelectSeq(tokens, LAMBDA u : u # <<>>)

\* The crawl-input file has been written and is what Crawl is given; in a
\* dry run nothing is written and Crawl is given the http-services path.
CrawlInputHandedOver ==
  /\ (pc = "katana" \/ Len(calls) = Len(STAGE_ORDER)) =>
       IF dry_run
       THEN katana_input = PathOf(HTTPX_OUT) /\ KATANA_INPUT \notin touched
       ELSE katana_input = PathOf(KATANA_INPUT) /\ KATANA_INPUT \in touched
  /\ Len(calls) = Len(STAGE_ORDER) => calls[5].command[3] = katana_input

(***************************************************************************)
(* C16.  Pre-crawl normalization: in a non-dry run, after HTTPx succeeds,   *)
(* the crawl-input file holds, in file order, exactly one line per          *)
(* http-services line whose part before the first whitespace character is   *)
(* non-empty, equal to that part, and it is this file that Crawl is given;  *)
(* in a dry run the step is skipped and Crawl is given the http-services    *)
(* path.                                                                    *)
(***************************************************************************)
C16_CrawlInputByWhitespace ==
  /\ CrawlInputHandedOver
  /\ KATANA_INPUT \in touched =>
       TextLines(fs[KATANA_INPUT].content)
         = LeadingTokens(fs[HTTPX_OUT].content, Whitespace)

\* C16 as it holds: the crawl-input file holds, in file order, exactly one
\* line per http-services line whose part before the first space character,
\* trimmed of surrounding whitespace, is non-empty, equal to that trimmed
\* part; it is the file Crawl is given, and in a dry run the step is skipped
\* and Crawl is given the http-services path.
C16_CrawlInputBySpace ==
  /\ CrawlInputHandedOver
  /\ KATANA_INPUT \in touched =>
       TextLines(fs[KATANA_INPUT].content)
         = LeadingTokens(fs[HTTPX_OUT].content, {SP})

\* Katana was called on a crawl-input file that kept the URL of an annotated
\* line and dropped a line starting with a space.
C16_Witness ==
  /\ ~dry_run
  /\ Len(calls) = Len(STAGE_ORDER)
  /\ fs[HTTPX_OUT].content = WriteLines(<<LineHttpAnnotated, <<SP>> \o LineHttpA>>)
  /\ fs[KATANA_INPUT].content = WriteLines(<<LineHttp>>)
  /\ calls[5].command[3] = PathOf(KATANA_INPUT)

\* A captured stdout as an artifact: trimmed, with one trailing newline when
\* it is not empty.
StageOutput(stdout) ==
  LET t == Trimmed(stdout) IN IF t # <<>> THEN t \o <<NL>> ELSE <<>>

\* The root-domain line as the root-domain step appends it.
RootDomainAppended(content) == content \o <<NL>> \o Chars(domain) \o <<NL>>

(***************************************************************************)
(* C17.  Re-runs replace wholesale: whatever the output directory held,     *)
(* after a stage succeeds in a non-dry run its artifact is determined by    *)
(* this run's captured stdout alone (trimmed, one trailing newline iff      *)
(* non-empty, plus the root-domain append for Subfinder) and holds nothing  *)
(* of a previous run; the artifacts of stages not reached keep their        *)
(* previous contents.                                                       *)
(***************************************************************************)
C17_RerunsReplace ==
  ~dry_run =>
    /\ \A n \in 1..Len(calls) :
          calls[n].ok =>
            LET base == StageOutput(calls[n].stdout)
                f == fs[StageArtifact[n]]
            IN /\ f.exists
               /\ \/ f.content = base
                  \/ /\ n = 1 /\ Truthy(domain) /\ pc # "root_domain"
                     /\ f.content = RootDomainAppended(base)
    /\ \A n \in (Len(calls) + 1)..Len(StageArtifact) :
          fs[StageArtifact[n]] = fs0[StageArtifact[n]]

\* Over a previous run's files, DNSx succeeded with empty output and Naabu
\* failed: dnsx.txt is empty and httpx.txt is the previous run's.
C17_Witness ==
  /\ ~dry_run
  /\ fs0[DNSX_OUT] = File(StaleLine)
  /\ Len(calls) = 3 /\ calls[2].ok /\ FailedAt(3)
  /\ fs[DNSX_OUT] = File(<<>>)
  /\ fs[HTTPX_OUT] = File(StaleLine)

\* The exceptions the except clause of run_command catches.
CaughtExceptions == {"spawn_error", "open_error", "write_error"}

\* What only stages after position n, or the post-processing, write.
LaterOutputs(n) ==
  {StageArtifact[k] : k \in (n + 1)..Len(StageArtifact)}
  \cup {BURP_FILE, SUMMARY_FILE, PROMPT_FILE}

(***************************************************************************)
(* C18.  An exception raised inside run_command never escapes it: it        *)
(* becomes a failure outcome of the stage, the pipeline halts at that stage *)
(* exactly as it does for a non-zero exit, and no later stage or            *)
(* post-processing step runs.                                               *)
(***************************************************************************)
C18_ExceptionsContained ==
  \A n \in 1..Len(calls) :
     /\ calls[n].cause \in CaughtExceptions =>
          /\ ~calls[n].ok
          /\ diag = "Exception"
     /\ ~calls[n].ok =>
          /\ Len(calls) = n
          /\ pc = "done" /\ exit_code = 0
          /\ \A f \in LaterOutputs(n) : Untouched(f)

\* DNSx could not be started: the run is over after two calls.
C18_Witness ==
  /\ Len(calls) = 2
  /\ calls[2].cause = "spawn_error"
  /\ pc = "done"
  /\ calls[1].ok

\* The run went through all five stages and the whole post-processing.
FullySuccessful ==
  pc = "done" /\ exit_code = 0 /\ diag = "Recon Chain Complete!"

(***************************************************************************)
(* C19.  In every fully successful non-dry run the summary's                *)
(* stats.burp_import equals the cardinality create_burp_file returned in    *)
(* the same run.                                                            *)
(***************************************************************************)
C19_BurpImportIsCount ==
  (FullySuccessful /\ ~dry_run) =>
    /\ summary.exists
    /\ summary.stats["burp_import"] = burp_result.count

\* A complete run over a previous run's files that consolidated two URLs.
C19_Witness ==
  /\ FullySuccessful /\ ~dry_run /\ AllStagesSucceeded
  /\ fs0[BURP_FILE] = File(StaleLine)
  /\ burp_result.count = 2
  /\ summary.stats["burp_import"] = 2

\* The blank lines of a text: those with nothing but whitespace.
BlankLines(content) ==
  LET lines == TextLines(content)
  IN {i \in 1..Len(lines) : Trimmed(lines[i]) = <<>>}

\* The root-domain step of a single-domain, non-dry run is over.
RootDomainStepDone ==
  /\ ~dry_run /\ Truthy(domain)
  /\ Len(calls) >= 1 /\ calls[1].ok
  /\ pc # "root_domain"
  /\ ~(Len(calls) = 1 /\ pc = "done")

(***************************************************************************)
(* C20.  In a non-dry run with a single-domain target, if the Subfinder     *)
(* stdout has no blank line then subfinder.txt after the root-domain step   *)
(* has no blank line either, so its raw line count equals its non-blank     *)
(* line count.                                                              *)
(***************************************************************************)
C20_NoBlankLine ==
  (RootDomainStepDone /\ BlankLines(calls[1].stdout) = {}) =>
    /\ BlankLines(fs[SUBFINDER_OUT].content) = {}
    /\ RawLineCount(fs[SUBFINDER_OUT]) = count_nonblank(fs[SUBFINDER_OUT])

\* What does hold: the root-domain step adds at most one blank line, the one
\* it writes before the domain.
C20_AtMostOneBlankLine ==
  (RootDomainStepDone /\ BlankLines(calls[1].stdout) = {}) =>
    /\ Cardinality(BlankLines(fs[SUBFINDER_OUT].content)) <= 1
    /\ BlankLines(fs[SUBFINDER_OUT].content) # {} =>
         fs[SUBFINDER_OUT].content
           = RootDomainAppended(StageOutput(calls[1].stdout))

====
